---- MODULE Spec2Model ----
(***************************************************************************)
(* A model of the Brauer / Temperley-Lieb diagram algebra of the           *)
(* repository: perfect matchings (temperley_lieb.rs), formal linear        *)
(* combinations (linear_combination.rs) and the BrauerMorphism facade.     *)
(*                                                                         *)
(* Values                                                                  *)
(*   Pair                    <<a, b>>                                      *)
(*   PerfectMatching         the Vec<Pair>, a sequence of pairs            *)
(*   ExtendedPerfectMatching <<dom, cod, delta_pow, pairs>>                *)
(*   LinearCombination       the HashMap, a function key -> coefficient    *)
(*   BrauerMorphism          [diagram, source, target, is_def_tl]          *)
(* A call that can panic or fail returns [st, val] with st one of          *)
(* "ok", "err" (an Err(String) result) and "panic" (an assertion failure). *)
(***************************************************************************)
EXTENDS Integers, Sequences, FiniteSets, TLC

\* ------------------------------------------------------------------ bounds

\* largest domain / codomain size of a morphism drawn as an input
MaxArity == 2
\* largest power of delta of a term drawn as an input
MaxPow == 1
\* largest number of terms of a formal sum drawn as an input
MaxTerms == 2
\* coefficients of input terms lie in -MaxCoeff..MaxCoeff
MaxCoeff == 1
\* at most this many operations are called in a run
MaxSteps == 1
\* the number of in-place operations applied one after the other to a morphism
MaxOps == 3
\* the number of pairs of the matchings of the morphisms that dagger is
\* applied to
MaxPairs == 2
\* largest n of the identity(n) and of the generators on n strands that a
\* sequence of operations starts from
MaxGen == 3
\* the number of pairs of the matchings that non_crossing is called on
MaxPlanarPairs == 4
\* the number of keys of the formal sums that the arithmetic of
\* LinearCombination is called on
MaxKeys == 2
\* the number of keys of the formal sums whose keys are mapped
MaxMapKeys == 3
\* the largest length of the coefficient lists that delta_polynomial is
\* called on
MaxDegree == 4
\* the largest domain / codomain size of the tagged matchings that are
\* glued
MaxGlueSide == 3
\* the number of pairs of the matchings that shift_index is called on
MaxShiftPairs == 3
\* the largest shift_amount that shift_index is called with
MaxShift == 2
\* the largest number of layers of a GenericMonoidalMorphism drawn as an
\* input
MaxLayers == 2
\* the number of labels (Lambda) that the types of the layers are made of
MaxLabels == 2

\* ------------------------------------------------------------------ constants of the tests

\* test t_l_relations: temperley_lieb_gens(5)
TLGenN == 5
\* tests sym_relations and tangle_relations: let n = 7
SymGenN == 7

\* ------------------------------------------------------------------ helpers

Min2(x, y) == IF x < y THEN x ELSE y

Max2(x, y) == IF x < y THEN y ELSE x

\* every order in which the elements of the finite set S can be visited
Orders(S) == {s \in [1..Cardinality(S) -> S] : \A x \in S : \E i \in 1..Cardinality(S) : s[i] = x}


\* the set of values a sequence holds
Range(s) == {s[i] : i \in 1..Len(s)}

\* sum of w[x] over the finite set S
RECURSIVE SumOver(_, _)
SumOver(S, w) ==
    IF S = {} THEN 0
    ELSE LET x == CHOOSE y \in S : TRUE
         IN w[x] + SumOver(S \ {x}, w)

\* ------------------------------------------------------------------ Pair

\* #[derive(PartialOrd, Ord)] on Pair(usize, usize): lexicographic order
PairLess(p, q) == p[1] < q[1] \/ (p[1] = q[1] /\ p[2] < q[2])

\* Pair::sorted
PairSorted(x, y) == IF x < y THEN <<x, y>> ELSE <<y, x>>

\* Pair::sort
PairSort(p) == PairSorted(p[1], p[2])

\* mutant of PairContains: only a pair whose larger end comes first holds x
PairContainsDescending(p, x) == x < p[1] /\ x > p[2]

\* Pair::contains: x lies strictly between the two ends
PairContains(p, x) == (x < p[1] /\ x > p[2]) \/ (x < p[2] /\ x > p[1])

\* mutant of PairFlipUpsideDown: a domain point moves up by source
PairFlipBySource(p, source, target) ==
    LET fl(v) == IF v < source THEN v + source ELSE v - source
    IN <<fl(p[1]), fl(p[2])>>

\* Pair::flip_upside_down
PairFlipUpsideDown(p, source, target) ==
    LET fl(v) == IF v < source THEN v + target ELSE v - source
    IN <<fl(p[1]), fl(p[2])>>

\* ------------------------------------------------------------------ PerfectMatching

\* Vec::sort on the pairs: insertion of p into a sorted sequence
RECURSIVE InsertSorted(_, _)
InsertSorted(p, s) ==
    IF s = <<>> THEN <<p>>
    ELSE IF PairLess(s[1], p) THEN <<s[1]>> \o InsertSorted(p, Tail(s))
    ELSE <<p>> \o s

RECURSIVE SortPairs(_)
SortPairs(s) ==
    IF s = <<>> THEN <<>>
    ELSE InsertSorted(s[1], SortPairs(Tail(s)))

\* mutant of canonicalize: every pair smaller end first, the pairs left in
\* the order they came in (no self.pairs.sort())
canonicalize_unsorted(pairs) == [i \in 1..Len(pairs) |-> PairSort(pairs[i])]


\* PerfectMatching::canonicalize: every pair smaller end first, pairs sorted
canonicalize(pairs) == SortPairs([i \in 1..Len(pairs) |-> PairSort(pairs[i])])

\* the two assertions of PerfectMatching::from_iter
from_iter_ok(pairs) ==
    LET max_expected == Len(pairs) * 2
        seen == UNION {{pairs[i][1], pairs[i][2]} : i \in 1..Len(pairs)}
    IN /\ \A i \in 1..Len(pairs) :
            pairs[i][1] < max_expected /\ pairs[i][2] < max_expected
       /\ Cardinality(seen) = max_expected

\* PerfectMatching::from_iter
from_iter(pairs) ==
    IF from_iter_ok(pairs)
    THEN [st |-> "ok", val |-> canonicalize(pairs)]
    ELSE [st |-> "panic", val |-> <<>>]

\* the pair list PerfectMatching::shift_index hands to collect()
ShiftedPairs(pairs, threshold, shift_amount) ==
    [i \in 1..Len(pairs) |->
        <<IF pairs[i][1] >= threshold THEN pairs[i][1] + shift_amount ELSE pairs[i][1],
          IF pairs[i][2] >= threshold THEN pairs[i][2] + shift_amount ELSE pairs[i][2]>>]

\* PerfectMatching::shift_index: map every end, then collect() = from_iter
shift_index(pairs, threshold, shift_amount) ==
    from_iter(ShiftedPairs(pairs, threshold, shift_amount))

\* mutant of flip_upside_down: the flipped pairs are kept as they come, not
\* collected into canonical form
flip_upside_down_as_mapped(pairs, source, target) ==
    [st |-> "ok",
     val |-> [i \in 1..Len(pairs) |-> PairFlipUpsideDown(pairs[i], source, target)]]

\* PerfectMatching::flip_upside_down
flip_upside_down(pairs, source, target) ==
    from_iter([i \in 1..Len(pairs) |-> PairFlipUpsideDown(pairs[i], source, target)])

\* mutant of IsSortedSeq: the order of the through lines is not looked at
IsSortedSeqAny(s) == TRUE

\* is_sorted() of an iterator of numbers
IsSortedSeq(s) == \A i \in 1..Len(s) : \A j \in i..Len(s) : s[i] <= s[j]

\* the open integer interval a same-side line blocks: (1 + min)..max
BlockedBy(p) == (1 + Min2(p[1], p[2]))..(Max2(p[1], p[2]) - 1)

\* one loop over combinations(2) of same-side lines: no first line holds
\* exactly one end of a later line
NoSameSideCrossing(lines) ==
    \A i \in 1..Len(lines) : \A j \in (i + 1)..Len(lines) :
        PairContains(lines[i], lines[j][1]) = PairContains(lines[i], lines[j][2])

\* PerfectMatching::non_crossing
non_crossing(pairs, source, target) ==
    LET IsSource(p) == p[1] < source /\ p[2] < source
        IsTarget(p) == p[1] >= source /\ p[2] >= source
        IsThrough(p) == (p[1] < source /\ p[2] >= source)
                        \/ (p[2] < source /\ p[1] >= source)
        source_lines == SelectSeq(pairs, IsSource)
        target_lines == SelectSeq(pairs, IsTarget)
        through_sel == SelectSeq(pairs, IsThrough)
        through_lines == [i \in 1..Len(through_sel) |-> PairSort(through_sel[i])]
        no_through_lines_idx ==
            UNION {BlockedBy(source_lines[i]) : i \in 1..Len(source_lines)}
            \cup UNION {BlockedBy(target_lines[i]) : i \in 1..Len(target_lines)}
    IN IF ~NoSameSideCrossing(source_lines) THEN FALSE
       ELSE IF ~NoSameSideCrossing(target_lines) THEN FALSE
       ELSE IF \E i \in 1..Len(through_lines) :
                  through_lines[i][1] \in no_through_lines_idx
                  \/ through_lines[i][2] \in no_through_lines_idx
            THEN FALSE
       ELSE IsSortedSeq([i \in 1..Len(through_lines) |-> through_lines[i][2]])

\* ------------------------------------------------------------------ petgraph

\* the nodes reachable from the node set S along the undirected edges E
RECURSIVE ReachFrom(_, _)
ReachFrom(E, S) ==
    LET N == S \cup {e[2] : e \in {d \in E : d[1] \in S}}
               \cup {e[1] : e \in {d \in E : d[2] \in S}}
    IN IF N = S THEN S ELSE ReachFrom(E, N)

\* mutant of has_path_connecting: only an edge connects, not a path
has_path_connecting_by_edge(E, a, b) == a = b \/ <<a, b>> \in E \/ <<b, a>> \in E

\* petgraph::algo::has_path_connecting on an undirected graph
has_path_connecting(E, a, b) == b \in ReachFrom(E, {a})

\* petgraph::algo::connected_components
connected_components(Nodes, E) == Cardinality({ReachFrom(E, {n}) : n \in Nodes})

\* ------------------------------------------------------------------ ExtendedPerfectMatching

\* mutant of BoundaryLoc: a codomain point of the product is not moved past
\* the codomain of self
BoundaryLocUnshifted(i, self_dom, self_cod) == i

\* the graph node of boundary point i of the glued diagram:
\* node_idcs[if i < self_dom { i } else { i + self_cod }]
BoundaryLoc(i, self_dom, self_cod) == IF i < self_dom THEN i ELSE i + self_cod

\* the edges of the graph g: one per pair of self, one per pair of rhs with
\* the rhs points moved up by self_dom (rhs domain point p is the node of
\* self's codomain point p)
GlueEdges(self_dom, self_pairs, rhs_pairs) ==
    Range(self_pairs)
    \cup {<<rhs_pairs[i][1] + self_dom, rhs_pairs[i][2] + self_dom>> :
            i \in 1..Len(rhs_pairs)}

\* assert_eq!(rhs_dom, self_cod), the indexing of node_idcs and the two
\* loops asserting that every node index was set
GlueAssertsHold(self_dom, self_cod, self_pairs, rhs_dom, rhs_cod, rhs_pairs) ==
    LET size == self_dom + self_cod + rhs_cod
        self_ends == UNION {{self_pairs[i][1], self_pairs[i][2]} : i \in 1..Len(self_pairs)}
        rhs_ends == UNION {{rhs_pairs[i][1], rhs_pairs[i][2]} : i \in 1..Len(rhs_pairs)}
    IN /\ rhs_dom = self_cod
       /\ \A p \in self_ends : p < size
       /\ \A idx \in 0..(self_dom + self_cod - 1) : idx \in self_ends
       /\ \A p \in rhs_ends : p + self_dom < size
       /\ \A idx \in 0..(size - 1) :
             idx \in self_ends \/ (idx - self_dom) \in {p \in rhs_ends : p >= rhs_dom}

\* the loop `for i in 0..endpoints`: boundary point i, the endpoints already
\* done and the pairs pushed so far
RECURSIVE GlueScan(_, _, _, _, _, _, _)
GlueScan(E, endpoints, self_dom, self_cod, i, endpoints_done, final_matching) ==
    IF i >= endpoints THEN final_matching
    ELSE IF i \in endpoints_done
    THEN GlueScan(E, endpoints, self_dom, self_cod, i + 1, endpoints_done, final_matching)
    ELSE LET i_loc == BoundaryLoc(i, self_dom, self_cod)
             conn == {j \in (i + 1)..(endpoints - 1) :
                        has_path_connecting(E, i_loc, BoundaryLoc(j, self_dom, self_cod))}
         IN IF conn = {}
            THEN GlueScan(E, endpoints, self_dom, self_cod, i + 1,
                          endpoints_done, final_matching)
            ELSE LET j == CHOOSE x \in conn : \A y \in conn : x <= y
                 IN GlueScan(E, endpoints, self_dom, self_cod, i + 1,
                             endpoints_done \cup {i, j},
                             Append(final_matching, <<i, j>>))

\* mutant of NewDeltaPower: every component counted as a closed loop
NewDeltaPowerAllComponents(components, self_delta_pow, rhs_delta_pow, endpoints) ==
    components + self_delta_pow + rhs_delta_pow

\* mutant of NewDeltaPower: the power of self is left out
NewDeltaPowerNoSelf(components, self_delta_pow, rhs_delta_pow, endpoints) ==
    components + rhs_delta_pow - (endpoints \div 2)

\* connected_components(&g) + self_delta_pow + rhs_delta_pow - (endpoints / 2),
\* before the subtraction is narrowed to usize
NewDeltaPower(components, self_delta_pow, rhs_delta_pow, endpoints) ==
    components + self_delta_pow + rhs_delta_pow - (endpoints \div 2)

\* ExtendedPerfectMatching::mul
ext_mul(self, rhs) ==
    LET self_dom == self[1]
        self_cod == self[2]
        rhs_dom == rhs[1]
        rhs_cod == rhs[2]
    IN IF ~GlueAssertsHold(self_dom, self_cod, self[4], rhs_dom, rhs_cod, rhs[4])
       THEN [st |-> "panic", val |-> <<>>]
       ELSE LET E == GlueEdges(self_dom, self[4], rhs[4])
                Nodes == 0..(self_dom + self_cod + rhs_cod - 1)
                endpoints == self_dom + rhs_cod
                final_matching ==
                    GlueScan(E, endpoints, self_dom, self_cod, 0, {}, <<>>)
                new_delta_power ==
                    NewDeltaPower(connected_components(Nodes, E), self[3], rhs[3], endpoints)
                matching == from_iter(final_matching)
            IN IF new_delta_power < 0 \/ matching.st # "ok"
               THEN [st |-> "panic", val |-> <<>>]
               ELSE [st |-> "ok",
                     val |-> <<self_dom, rhs_cod, new_delta_power, matching.val>>]

\* ------------------------------------------------------------------ LinearCombination

\* LinearCombination::singleton
singleton(t) == [k \in {t} |-> 1]

\* Mul<Coeffs> and MulAssign<Coeffs>: every coefficient times rhs
lc_scale(lc, rhs) == [k \in DOMAIN lc |-> lc[k] * rhs]

\* mutant of lc_add: the value of rhs replaces the value of self at a key
\* of both (insert in place of entry().and_modify())
lc_add_insert(self, rhs) ==
    [k \in DOMAIN self \cup DOMAIN rhs |->
        IF k \in DOMAIN rhs THEN rhs[k] ELSE self[k]]

\* Add and AddAssign: entry(k).and_modify(+= v).or_insert(v)
lc_add(self, rhs) ==
    [k \in DOMAIN self \cup DOMAIN rhs |->
        IF k \in DOMAIN self /\ k \in DOMAIN rhs THEN self[k] + rhs[k]
        ELSE IF k \in DOMAIN self THEN self[k]
        ELSE rhs[k]]

\* mutant of lc_sub: an entry that becomes zero is removed
lc_sub_dropping_zero(self, rhs) ==
    LET diff == [k \in DOMAIN self \cup DOMAIN rhs |->
                    IF k \in DOMAIN self /\ k \in DOMAIN rhs THEN self[k] - rhs[k]
                    ELSE IF k \in DOMAIN self THEN self[k]
                    ELSE 0 - rhs[k]]
    IN [k \in {x \in DOMAIN diff : diff[x] # 0} |-> diff[k]]

\* Sub: entry(k).and_modify(-= v).or_insert(-v)
lc_sub(self, rhs) ==
    [k \in DOMAIN self \cup DOMAIN rhs |->
        IF k \in DOMAIN self /\ k \in DOMAIN rhs THEN self[k] - rhs[k]
        ELSE IF k \in DOMAIN self THEN self[k]
        ELSE 0 - rhs[k]]

\* Neg: every value is negated
lc_neg(self) == [k \in DOMAIN self |-> 0 - self[k]]

\* mutant of CombineInto: a colliding key is overwritten (insert) instead of
\* added to (+=)
CombineIntoOverwrite(self, rhs, img) ==
    [k \in {img[pr] : pr \in DOMAIN img} |->
        LET pr == CHOOSE x \in DOMAIN img : img[x] = k
        IN self[pr[1]] * rhs[pr[2]]]

\* the sum that the double loop of linear_combine / mul accumulates into
\* ret_val: img maps every pair of keys to the key it produces
CombineInto(self, rhs, img) ==
    [k \in {img[pr] : pr \in DOMAIN img} |->
        SumOver({pr \in DOMAIN img : img[pr] = k},
                [pr \in DOMAIN img |-> self[pr[1]] * rhs[pr[2]]])]

\* LinearCombination::linear_combine; the closure combiner is the function
\* from the pairs of keys to the keys it returns
linear_combine(self, rhs, combiner) ==
    CombineInto(self, rhs,
                [pr \in (DOMAIN self) \X (DOMAIN rhs) |-> combiner[pr]])

\* mutant of AccumulateTerm: a key that ret_val already has keeps its
\* coefficient (or_insert without and_modify)
AccumulateTermFirstWins(ret_val, key, coeff) ==
    [k \in DOMAIN ret_val \cup {key} |->
        IF k \in DOMAIN ret_val THEN ret_val[k] ELSE coeff]

\* the body of the loops of linear_combine and of mul:
\* ret_val += singleton(key) * coeff
AccumulateTerm(ret_val, key, coeff) ==
    lc_add(ret_val, lc_scale(singleton(key), coeff))

\* ret_val of linear_combine after n rounds of the inner loop, the keys of
\* self visited in the order keys1 and for each of them the keys of rhs in
\* the order keys2 (a HashMap iterates in an unspecified order)
RECURSIVE CombineVisited(_, _, _, _, _, _)
CombineVisited(self, rhs, combiner, keys1, keys2, n) ==
    IF n = 0 THEN [k \in {} |-> 0]
    ELSE LET k1 == keys1[((n - 1) \div Len(keys2)) + 1]
             k2 == keys2[((n - 1) % Len(keys2)) + 1]
         IN AccumulateTerm(CombineVisited(self, rhs, combiner, keys1, keys2, n - 1),
                           combiner[<<k1, k2>>], self[k1] * rhs[k2])

\* LinearCombination::linear_combine as the loops run, under the iteration
\* orders keys1 of self.0 and keys2 of rhs.0
linear_combine_visiting(self, rhs, combiner, keys1, keys2) ==
    CombineVisited(self, rhs, combiner, keys1, keys2, Len(keys1) * Len(keys2))


\* Mul for LinearCombination<Coeffs, ExtendedPerfectMatching>: the key of a
\* pair of terms is k1 * k2, which panics when ext_mul does
lc_mul(self, rhs) ==
    LET prod == [pr \in (DOMAIN self) \X (DOMAIN rhs) |-> ext_mul(pr[1], pr[2])]
    IN IF \E pr \in DOMAIN prod : prod[pr].st # "ok"
       THEN [st |-> "panic", val |-> <<>>]
       ELSE [st |-> "ok",
             val |-> CombineInto(self, rhs, [pr \in DOMAIN prod |-> prod[pr].val])]

\* LinearCombination::simplify
lc_simplify(lc) == [k \in {x \in DOMAIN lc : lc[x] # 0} |-> lc[k]]

\* mutant of all_terms_satisfy: a key of coefficient zero is not looked at
all_terms_satisfy_nonzero(lc, is_non_crossing) ==
    \A k \in DOMAIN lc : lc[k] # 0 => is_non_crossing[k]

\* LinearCombination::all_terms_satisfy
all_terms_satisfy(lc, is_non_crossing) == \A k \in DOMAIN lc : is_non_crossing[k]

\* LinearCombination::change_coeffs
change_coeffs(lc, coeff_changer) == [k \in DOMAIN lc |-> coeff_changer[lc[k]]]

\* LinearCombination::inj_linearly_extend: the assertion fails when insert
\* finds the new key already there
inj_linearly_extend(lc, injection) ==
    IF \E k1, k2 \in DOMAIN lc : k1 # k2 /\ injection[k1] = injection[k2]
    THEN [st |-> "panic", val |-> <<>>]
    ELSE [st |-> "ok",
          val |-> [n \in {injection[k] : k \in DOMAIN lc} |->
                     lc[CHOOSE k \in DOMAIN lc : injection[k] = n]]]

\* LinearCombination::linearly_extend: colliding keys add their coefficients
linearly_extend(lc, extend) ==
    [n \in {extend[k] : k \in DOMAIN lc} |->
        SumOver({k \in DOMAIN lc : extend[k] = n}, lc)]

\* ------------------------------------------------------------------ BrauerMorphism

\* the struct BrauerMorphism
Morphism(diagram, source, target, is_def_tl) ==
    [diagram |-> diagram, source |-> source, target |-> target, is_def_tl |-> is_def_tl]

Ok(v) == [st |-> "ok", val |-> v]

Err(v) == [st |-> "err", val |-> v]

Panic(v) == [st |-> "panic", val |-> v]

\* Composable::composable, the arity check compose starts with
composable(self, other) == self.target = other.source

\* HasIdentity::identity
identity(on_this) ==
    Morphism(singleton(<<0, from_iter([x \in 1..on_this |-> <<x - 1, x - 1 + on_this>>]).val>>),
             on_this, on_this, TRUE)

\* mutant of Tagged: the power of delta is not carried into the tagged key
TaggedNoPower(m, k) == <<m.source, m.target, 0, k[2]>>

\* the closure of compose that tags a term with the domain and codomain
Tagged(m, k) == <<m.source, m.target, k[1], k[2]>>

\* the closure of compose that drops the tags again
Untagged(extended) == <<extended[3], extended[4]>>

\* mutant of ComposeFlag: the flag of self alone
ComposeFlagOfSelf(self, other) == self.is_def_tl

\* mutant of ComposeFlag: || in place of &&
ComposeFlagOr(self, other) == self.is_def_tl \/ other.is_def_tl

\* the flag of a product: self.is_def_tl && other.is_def_tl
ComposeFlag(self, other) == self.is_def_tl /\ other.is_def_tl

\* Composable::compose
compose(self, other) ==
    IF ~composable(self, other) THEN Err("CompositionArityMismatch")
    ELSE LET extended_diagram_self ==
                 inj_linearly_extend(self.diagram,
                                     [k \in DOMAIN self.diagram |-> Tagged(self, k)])
             extended_diagram_other ==
                 inj_linearly_extend(other.diagram,
                                     [k \in DOMAIN other.diagram |-> Tagged(other, k)])
         IN IF extended_diagram_self.st # "ok" \/ extended_diagram_other.st # "ok"
            THEN Panic(<<>>)
            ELSE LET extended_diagram_product ==
                         lc_mul(extended_diagram_self.val, extended_diagram_other.val)
                 IN IF extended_diagram_product.st # "ok" THEN Panic(<<>>)
                    ELSE Ok(Morphism(linearly_extend(extended_diagram_product.val,
                                                     [k \in DOMAIN extended_diagram_product.val
                                                         |-> Untagged(k)]),
                                     self.source, other.target,
                                     ComposeFlag(self, other)))

\* mutant of TensorKey: the power of the term of other is not added
TensorKeyNoOtherPower(k1, k2, old_domain, old_codomain, other_domain, new_domain) ==
    LET new_matching == shift_index(k1[2], old_domain, other_domain)
        other_shifted1 == shift_index(k2[2], 0, old_domain)
    IN IF new_matching.st # "ok" \/ other_shifted1.st # "ok" THEN Panic(<<>>)
       ELSE LET other_shifted == shift_index(other_shifted1.val, new_domain, old_codomain)
            IN IF other_shifted.st # "ok" THEN Panic(<<>>)
               ELSE Ok(<<k1[1], canonicalize(new_matching.val \o other_shifted.val)>>)

\* the closure monoidal hands to linear_combine, for one pair of terms
TensorKey(k1, k2, old_domain, old_codomain, other_domain, new_domain) ==
    LET new_matching == shift_index(k1[2], old_domain, other_domain)
        other_shifted1 == shift_index(k2[2], 0, old_domain)
    IN IF new_matching.st # "ok" \/ other_shifted1.st # "ok" THEN Panic(<<>>)
       ELSE LET other_shifted == shift_index(other_shifted1.val, new_domain, old_codomain)
            IN IF other_shifted.st # "ok" THEN Panic(<<>>)
               ELSE Ok(<<k1[1] + k2[1],
                         canonicalize(new_matching.val \o other_shifted.val)>>)

\* mutant of MonoidalFlag: the flag of self is left as it is
MonoidalFlagKept(self, other) == self.is_def_tl

\* the flag of a tensor product: self.is_def_tl &= other.is_def_tl
MonoidalFlag(self, other) == self.is_def_tl /\ other.is_def_tl

\* mutant of monoidal: self.target is not grown by the codomain of other
monoidal_target_kept(self, other) ==
    LET old_domain == self.source
        old_codomain == self.target
        other_domain == other.source
        new_domain == self.source + other.source
        started == [self EXCEPT !.source = new_domain,
                                !.is_def_tl = MonoidalFlag(self, other)]
        keys == [pr \in (DOMAIN self.diagram) \X (DOMAIN other.diagram) |->
                    TensorKey(pr[1], pr[2], old_domain, old_codomain,
                              other_domain, new_domain)]
    IN IF \E pr \in DOMAIN keys : keys[pr].st # "ok" THEN Panic(started)
       ELSE Ok([started EXCEPT !.diagram =
                   linear_combine(self.diagram, other.diagram,
                                  [pr \in DOMAIN keys |-> keys[pr].val])])

\* Monoidal::monoidal. The value is self after the call; when the closure
\* panics, source, target and is_def_tl are already written and diagram is not
monoidal(self, other) ==
    LET old_domain == self.source
        old_codomain == self.target
        other_domain == other.source
        new_domain == self.source + other.source
        started == [self EXCEPT !.source = new_domain,
                                !.target = self.target + other.target,
                                !.is_def_tl = MonoidalFlag(self, other)]
        keys == [pr \in (DOMAIN self.diagram) \X (DOMAIN other.diagram) |->
                    TensorKey(pr[1], pr[2], old_domain, old_codomain,
                              other_domain, new_domain)]
    IN IF \E pr \in DOMAIN keys : keys[pr].st # "ok" THEN Panic(started)
       ELSE Ok([started EXCEPT !.diagram =
                   linear_combine(self.diagram, other.diagram,
                                  [pr \in DOMAIN keys |-> keys[pr].val])])

\* mutant of TLGenPair: strands i and i + 1 cross instead of turning back
TLGenPairCrossed(n, i, j) ==
    IF j = i THEN <<i, i + n + 1>>
    ELSE IF j = i + 1 THEN <<i + 1, i + n>>
    ELSE <<j, j + n>>

\* the pair the closure of temperley_lieb_gens gives for j
TLGenPair(n, i, j) ==
    IF j = i THEN <<i, i + 1>>
    ELSE IF j = i + 1 THEN <<i + n, i + 1 + n>>
    ELSE <<j, j + n>>

\* element i of BrauerMorphism::temperley_lieb_gens(n), 0 <= i < n - 1
temperley_lieb_gens(n, i) ==
    Morphism(singleton(<<0, from_iter([x \in 1..n |-> TLGenPair(n, i, x - 1)]).val>>),
             n, n, TRUE)

\* mutant of SymGenPair: strands i and i + 1 turn back instead of crossing
SymGenPairTurned(n, i, j) ==
    IF j = i THEN <<i, i + 1>>
    ELSE IF j = i + 1 THEN <<i + n, i + 1 + n>>
    ELSE <<j, j + n>>

\* the pair the closure of symmetric_alg_gens gives for j
SymGenPair(n, i, j) ==
    IF j = i THEN <<i, i + n + 1>>
    ELSE IF j = i + 1 THEN <<i + 1, i + n>>
    ELSE <<j, j + n>>

\* element i of BrauerMorphism::symmetric_alg_gens(n), 0 <= i < n - 1
symmetric_alg_gens(n, i) ==
    Morphism(singleton(<<0, from_iter([x \in 1..n |-> SymGenPair(n, i, x - 1)]).val>>),
             n, n, FALSE)

\* the loop of delta_polynomial over coeffs.iter().enumerate().skip(1):
\* coeffs[idx + 1] is the coefficient of delta^idx
RECURSIVE DeltaLoop(_, _, _)
DeltaLoop(coeffs, idx, diagram) ==
    IF idx >= Len(coeffs) THEN diagram
    ELSE DeltaLoop(coeffs, idx + 1,
                   lc_add(diagram, lc_scale(singleton(<<idx, <<>>>>), coeffs[idx + 1])))

\* BrauerMorphism::delta_polynomial
delta_polynomial(coeffs) ==
    LET zeroth_coeff == IF Len(coeffs) > 0 THEN coeffs[1] ELSE 0
    IN Morphism(DeltaLoop(coeffs, 1, lc_scale(singleton(<<0, <<>>>>), zeroth_coeff)),
                0, 0, TRUE)

\* BrauerMorphism::dagger
dagger(self, num_dagger) ==
    LET flipped == [k \in DOMAIN self.diagram |->
                       flip_upside_down(k[2], self.source, self.target)]
    IN IF \E k \in DOMAIN flipped : flipped[k].st # "ok" THEN Panic(<<>>)
       ELSE LET diagram == inj_linearly_extend(self.diagram,
                                               [k \in DOMAIN self.diagram |->
                                                   <<k[1], flipped[k].val>>])
            IN IF diagram.st # "ok" THEN Panic(<<>>)
               ELSE Ok(Morphism(change_coeffs(diagram.val, num_dagger),
                                self.target, self.source, self.is_def_tl))

\* BrauerMorphism::set_is_tl
set_is_tl(self) ==
    IF self.is_def_tl THEN self
    ELSE [self EXCEPT !.is_def_tl =
             all_terms_satisfy(self.diagram,
                               [k \in DOMAIN self.diagram |->
                                   non_crossing(k[2], self.source, self.target)])]

\* the free function simplify(me: &mut BrauerMorphism)
simplify(me) == [me EXCEPT !.diagram = lc_simplify(me.diagram)]

\* test_helper of the tests, with the generators already looked up: the
\* product of prod_these, tensored with simplify(delta_polynomial(coeffs))
RECURSIVE ComposeAll(_, _, _)
ComposeAll(prod_these, idx, full_prod) ==
    IF idx > Len(prod_these) THEN full_prod
    ELSE ComposeAll(prod_these, idx + 1,
                    IF full_prod.st = "ok" THEN compose(full_prod.val, prod_these[idx])
                    ELSE full_prod)

test_helper(prod_these, delta_poly_coeffs) ==
    LET delta_poly == simplify(delta_polynomial(delta_poly_coeffs))
    IN IF Len(prod_these) = 1 THEN monoidal(prod_these[1], delta_poly)
       ELSE LET full_prod == ComposeAll(prod_these, 3, compose(prod_these[1], prod_these[2]))
            IN IF full_prod.st = "ok" THEN monoidal(full_prod.val, delta_poly)
               ELSE full_prod

\* mutant of morphism_eq: the flag is compared as well, as a derived
\* PartialEq does
morphism_eq_derived(self, other) ==
    self.diagram = other.diagram /\ self.source = other.source
    /\ self.target = other.target /\ self.is_def_tl = other.is_def_tl


\* PartialEq for BrauerMorphism
morphism_eq(self, other) ==
    self.diagram = other.diagram /\ self.source = other.source
    /\ self.target = other.target

\* ------------------------------------------------------------------ GenericMonoidalMorphism

\* the struct GenericMonoidalMorphismLayer
Layer(blocks, left_type, right_type) ==
    [blocks |-> blocks, left_type |-> left_type, right_type |-> right_type]

\* the struct GenericMonoidalMorphism
Layered(layers) == [layers |-> layers]

\* GenericMonoidalMorphism::append_layer on the layers of self: the last
\* layer is popped, and pushed back only when the types agree. st is the
\* Result and val is self.layers after the call
append_layer(layers, next_layer) ==
    IF Len(layers) > 0
    THEN LET last_so_far == layers[Len(layers)]
             popped == SubSeq(layers, 1, Len(layers) - 1)
         IN IF last_so_far.right_type # next_layer.left_type
            THEN Err(popped)
            ELSE Ok(Append(Append(popped, last_so_far), next_layer))
    ELSE Ok(Append(layers, next_layer))

\* ComposableMutating::compose of GenericMonoidalMorphism: append_layer for
\* each layer of other, from layer number n on; `?` returns the first Err
RECURSIVE AppendLayers(_, _, _)
AppendLayers(layers, other_layers, n) ==
    IF n > Len(other_layers) THEN Ok(layers)
    ELSE LET r == append_layer(layers, other_layers[n])
         IN IF r.st # "ok" THEN r
            ELSE AppendLayers(r.val, other_layers, n + 1)


\* ------------------------------------------------------------------ inputs

\* every perfect matching of the finite set of points P, as sets of pairs
\* whose smaller end comes first
RECURSIVE PairingsOf(_)
PairingsOf(P) ==
    IF P = {} THEN {{}}
    ELSE LET a == CHOOSE x \in P : \A y \in P : x <= y
         IN UNION {{{<<a, b>>} \cup rest : rest \in PairingsOf(P \ {a, b})} :
                     b \in P \ {a}}

\* a set of pairs as the sorted Vec<Pair> that from_iter builds
RECURSIVE SeqOfPairs(_)
SeqOfPairs(S) ==
    IF S = {} THEN <<>>
    ELSE LET p == CHOOSE x \in S : \A y \in S : x = y \/ PairLess(x, y)
         IN <<p>> \o SeqOfPairs(S \ {p})

\* every PerfectMatching on the points 0..n-1
AllMatchings(n) == {SeqOfPairs(S) : S \in PairingsOf(0..(n - 1))}

\* the (source, target) of the morphisms drawn as inputs
Shapes == {sh \in (0..MaxArity) \X (0..MaxArity) : (sh[1] + sh[2]) % 2 = 0}

\* the coefficients of the terms drawn as inputs; zero is one of them (an
\* entry that simplify has not yet removed)
Coeffs == (0 - MaxCoeff)..MaxCoeff

\* every formal sum of at most MaxTerms terms over the keys Ks
SumsOver(Ks) ==
    UNION {[K -> Coeffs] : K \in {X \in SUBSET Ks : Cardinality(X) <= MaxTerms}}

\* is_def_tl means all the terms are non-crossing (the comment on the field)
FlagSound(m) ==
    m.is_def_tl => \A k \in DOMAIN m.diagram : non_crossing(k[2], m.source, m.target)

\* every morphism with a shape in Shapes, powers up to MaxPow, at most
\* MaxTerms terms and a flag that is true only of non-crossing terms
Morphs ==
    UNION {{m \in {Morphism(d, sh[1], sh[2], fl) :
                      d \in SumsOver((0..MaxPow) \X AllMatchings(sh[1] + sh[2])),
                      fl \in BOOLEAN} : FlagSound(m)} : sh \in Shapes}

\* every (source, target) with source + target = 2 * MaxPairs
WideShapes == {sh \in (0..(2 * MaxPairs)) \X (0..(2 * MaxPairs)) : sh[1] + sh[2] = 2 * MaxPairs}

\* every morphism with a shape in WideShapes, powers up to MaxPow, at most
\* MaxTerms terms and a flag that is true only of non-crossing terms
WideMorphs ==
    UNION {{m \in {Morphism(d, sh[1], sh[2], fl) :
                      d \in SumsOver((0..MaxPow) \X AllMatchings(sh[1] + sh[2])),
                      fl \in BOOLEAN} : FlagSound(m)} : sh \in WideShapes}

\* ------------------------------------------------------------------ state

VARIABLES
    f,      \* the morphism the operations are called on (self)
    g,      \* the second operand (other)
    h,      \* the third morphism of a product of three
    pre,    \* f as it was when the last operation was called
    res,    \* what the last operation returned: [st, val]
    res2,   \* the second result of an operation that computes two
    last,   \* the last operation
    steps,  \* the number of operations called so far
    limit,  \* the number of operations the run calls
    args    \* the arguments of a call of a function of PerfectMatching or
            \* LinearCombination

vars == <<f, g, h, pre, res, res2, last, steps, limit, args>>

\* nothing returned yet
NoResult == [st |-> "none", val |-> <<>>]

\* a panic unwinds the thread: nothing runs after it
Running == res.st # "panic" /\ steps < limit

StartCall(mf, mg, mh, n, x) ==
    /\ f = mf
    /\ g = mg
    /\ h = mh
    /\ pre = mf
    /\ res = NoResult
    /\ res2 = NoResult
    /\ last = "init"
    /\ steps = 0
    /\ limit = n
    /\ args = x

StartN(mf, mg, mh, n) == StartCall(mf, mg, mh, n, <<>>)

\* the start of a run that calls a function on the arguments x
StartArgs(x) == StartCall(identity(0), identity(0), identity(0), MaxSteps, x)

Start(mf, mg, mh) == StartN(mf, mg, mh, MaxSteps)

\* every coefficient list of at most MaxPow + 1 entries
CoeffLists == UNION {[1..n -> Coeffs] : n \in 0..(MaxPow + 1)}

\* the one-term morphisms of coefficient one
Units ==
    {m \in Morphs : \E k \in DOMAIN m.diagram :
                       DOMAIN m.diagram = {k} /\ m.diagram[k] = 1}

\* the second operands: the units and the scalars that test_helper builds,
\* simplify(delta_polynomial(coeffs))
Others == Units \cup {simplify(delta_polynomial(coeffs)) : coeffs \in CoeffLists}

\* a morphism of the input set and a second operand, in either order
Init ==
    \E a \in Morphs, b \in Others :
        Start(a, b, b) \/ Start(b, a, a)

\* three morphisms that compose, one of them any morphism of the input set
\* and two of them units of power 0; the flag plays no part in a product's
\* terms
InitAssoc ==
    \E a \in {m \in Morphs : ~m.is_def_tl},
       b, c \in {m \in Units : ~m.is_def_tl /\ \A k \in DOMAIN m.diagram : k[1] = 0} :
        \E t \in {<<a, b, c>>, <<b, a, c>>, <<b, c, a>>} :
            /\ composable(t[1], t[2])
            /\ composable(t[2], t[3])
            /\ Start(t[1], t[2], t[3])

\* the generators e_i and s_i of the algebra on n strands
Gens(n) ==
    {temperley_lieb_gens(n, i) : i \in 0..(n - 2)}
    \cup {symmetric_alg_gens(n, i) : i \in 0..(n - 2)}

\* two generators on the same n <= SymGenN strands and a third one with
\* the index of the first, as in the tests' products x y x and x y z
InitGens ==
    \E n \in 2..SymGenN : \E i, j \in 0..(n - 2) :
        \E a \in {temperley_lieb_gens(n, i), symmetric_alg_gens(n, i)},
           b \in {temperley_lieb_gens(n, j), symmetric_alg_gens(n, j)},
           c \in {temperley_lieb_gens(n, i), symmetric_alg_gens(n, i)} :
            Start(a, b, c)

\* a morphism of the input set, to which up to MaxOps in-place operations
\* are applied one after the other, and the operand of its tensor products
InitInPlace ==
    \E a \in Morphs, b \in Others : StartN(a, b, b, MaxOps)

\* a morphism on 2 * MaxPairs points, of any shape
InitDagger ==
    \E a \in WideMorphs : Start(a, a, a)

\* every sequence of at most MaxPairs pairs of numbers up to 2 * MaxPairs,
\* one more than the largest endpoint of a matching of MaxPairs pairs
PairSeqs ==
    UNION {[1..n -> (0..(2 * MaxPairs)) \X (0..(2 * MaxPairs))] : n \in 0..MaxPairs}

\* any sequence of pairs, handed to from_iter
InitFromIter ==
    \E pairs \in PairSeqs : StartArgs(pairs)

\* what the constructors return: identity(n), delta_polynomial(coeffs) as
\* built, and the generators of temperley_lieb_gens(n) and
\* symmetric_alg_gens(n), n up to MaxGen
Constructed ==
    {identity(n) : n \in 0..MaxGen}
    \cup {delta_polynomial(coeffs) : coeffs \in CoeffLists}
    \cup UNION {Gens(n) : n \in 2..MaxGen}

\* two constructed morphisms, the start of a sequence of up to MaxOps
\* operations
InitReach ==
    \E a, b \in Constructed : StartN(a, b, b, MaxOps)

\* a matching of at most MaxPlanarPairs pairs and a split of its points
\* into source and target
InitNonCrossing ==
    \E n \in 0..MaxPlanarPairs : \E m \in AllMatchings(2 * n) : \E source \in 0..(2 * n) :
        StartArgs(<<m, source, 2 * n - source>>)

\* every formal sum over the keys 1..MaxKeys with coefficients in Coeffs; a
\* key may be absent or present with coefficient zero
Sums == UNION {[K -> Coeffs] : K \in SUBSET (1..MaxKeys)}

\* three formal sums a, b, c
InitSums ==
    \E a, b, c \in Sums : StartArgs(<<a, b, c>>)

\* two formal sums and a combiner, any function from the pairs of keys to
\* the keys
InitCombine ==
    \E a, b \in Sums : \E combiner \in [(1..MaxKeys) \X (1..MaxKeys) -> 1..MaxKeys] :
        StartArgs(<<a, b, combiner>>)


\* a formal sum over the keys 1..MaxMapKeys and a function of its keys
InitMapKeys ==
    \E a \in UNION {[K -> Coeffs] : K \in SUBSET (1..MaxMapKeys)} :
        \E extend \in [1..MaxMapKeys -> 1..MaxMapKeys] :
            StartArgs(<<a, extend>>)


\* a coefficient list of any length up to MaxDegree, the empty one included
InitDelta ==
    \E coeffs \in UNION {[1..n -> Coeffs] : n \in 0..MaxDegree} : StartArgs(coeffs)


\* every ExtendedPerfectMatching of domain dom and codomain cod, of any
\* power up to MaxPow
TaggedMatchings(dom, cod) ==
    {<<dom, cod, p, m>> : p \in 0..MaxPow, m \in AllMatchings(dom + cod)}

\* two tagged matchings, the codomain of the first being the domain of the
\* second
InitGlue ==
    \E dL, cL, cR \in 0..MaxGlueSide :
        /\ (dL + cL) % 2 = 0
        /\ (cL + cR) % 2 = 0
        /\ \E L \in TaggedMatchings(dL, cL), R \in TaggedMatchings(cL, cR) :
              StartArgs(<<L, R>>)


\* a matching of at most MaxShiftPairs pairs, a threshold up to the number
\* of its points and a shift_amount up to MaxShift
InitShift ==
    \E n \in 0..MaxShiftPairs : \E m \in AllMatchings(2 * n) :
        \E threshold \in 0..(2 * n), shift_amount \in 0..MaxShift :
            StartArgs(<<m, threshold, shift_amount>>)


\* either any sequence of pairs, to build a matching from, or a morphism of
\* any of the input shapes and a second operand, to flip, glue and tensor
InitProduce ==
    \/ \E pairs \in PairSeqs : StartArgs(pairs)
    \/ \E a \in Morphs \cup WideMorphs, b \in Others : Start(a, b, b) \/ Start(b, a, a)


\* the types of the layers: the lists of at most one label
LayerTypes == {<<>>} \cup {<<x>> : x \in 1..MaxLabels}

\* every layer with types in LayerTypes, with no block or one
Layers ==
    {Layer(b, l, r) : b \in {<<>>, <<"box">>}, l \in LayerTypes, r \in LayerTypes}

\* every list of at most MaxLayers layers in which each layer's right_type
\* is the next layer's left_type, as append_layer builds them
LayerLists ==
    {s \in UNION {[1..n -> Layers] : n \in 0..MaxLayers} :
        \A i \in 1..(Len(s) - 1) : s[i].right_type = s[i + 1].left_type}

\* two GenericMonoidalMorphisms, the receiver and the other
InitLayers ==
    \E a, b \in LayerLists : Start(Layered(a), Layered(b), Layered(b))


\* three constructed morphisms: two operands of a product and the morphism
\* the product is compared with, as in the tests' test_asserter
InitEq ==
    \E a, b, c \in Constructed : StartN(a, b, c, MaxOps)


\* Result::and_then(|z| z.compose(other)) on the result r
and_then_compose(r, other) == IF r.st = "ok" THEN compose(r.val, other) ELSE r

\* f.compose(&g)
Compose ==
    /\ Running
    /\ res' = compose(f, g)
    /\ res2' = NoResult
    /\ pre' = f
    /\ last' = "compose"
    /\ steps' = steps + 1
    /\ UNCHANGED <<f, g, h, limit, args>>

\* the product of three, bracketed both ways as in test wiki_example:
\* f.compose(&g).and_then(|z| z.compose(&h)) and f.compose(&(g.compose(&h)?))
ComposeThree ==
    /\ Running
    /\ res' = and_then_compose(compose(f, g), h)
    /\ res2' = LET gh == compose(g, h)
               IN IF gh.st = "ok" THEN compose(f, gh.val) ELSE gh
    /\ pre' = f
    /\ last' = "compose3"
    /\ steps' = steps + 1
    /\ UNCHANGED <<f, g, h, limit, args>>

\* f.monoidal(g): f is written in place
Tensor ==
    /\ Running
    /\ LET r == monoidal(f, g)
       IN /\ f' = r.val
          /\ res' = [st |-> r.st, val |-> <<>>]
    /\ res2' = NoResult
    /\ pre' = f
    /\ last' = "tensor"
    /\ steps' = steps + 1
    /\ UNCHANGED <<g, h, limit, args>>

\* f.dagger(num_dagger), num_dagger the identity or the negation
Dagger ==
    /\ Running
    /\ \E neg \in BOOLEAN :
         /\ res' = dagger(f, [c \in {f.diagram[k] : k \in DOMAIN f.diagram} |->
                                  IF neg THEN 0 - c ELSE c])
         /\ last' = IF neg THEN "dagger_neg" ELSE "dagger"
    /\ res2' = NoResult
    /\ pre' = f
    /\ steps' = steps + 1
    /\ UNCHANGED <<f, g, h, limit, args>>

\* f.set_is_tl()
Verify ==
    /\ Running
    /\ f' = set_is_tl(f)
    /\ res' = Ok(<<>>)
    /\ res2' = NoResult
    /\ pre' = f
    /\ last' = "verify"
    /\ steps' = steps + 1
    /\ UNCHANGED <<g, h, limit, args>>

\* simplify(&mut f)
Simplify ==
    /\ Running
    /\ f' = simplify(f)
    /\ res' = Ok(<<>>)
    /\ res2' = NoResult
    /\ pre' = f
    /\ last' = "simplify"
    /\ steps' = steps + 1
    /\ UNCHANGED <<g, h, limit, args>>

\* PerfectMatching::from_iter(args): an assertion that fails is a panic
FromIter ==
    /\ Running
    /\ res' = from_iter(args)
    /\ res2' = NoResult
    /\ pre' = f
    /\ last' = "from_iter"
    /\ steps' = steps + 1
    /\ UNCHANGED <<f, g, h, limit, args>>

\* let f = result or let g = result: the morphism that compose or dagger
\* returned becomes an operand of the operations that follow
Take ==
    /\ res.st = "ok"
    /\ last \in {"compose", "dagger", "dagger_neg"}
    /\ \E as_other \in BOOLEAN :
         /\ f' = IF as_other THEN f ELSE res.val
         /\ g' = IF as_other THEN res.val ELSE g
    /\ res' = NoResult
    /\ res2' = NoResult
    /\ pre' = f
    /\ last' = "take"
    /\ UNCHANGED <<h, steps, limit, args>>

\* args[1].non_crossing(args[2], args[3])
NonCrossing ==
    /\ Running
    /\ res' = Ok(non_crossing(args[1], args[2], args[3]))
    /\ res2' = NoResult
    /\ pre' = f
    /\ last' = "non_crossing"
    /\ steps' = steps + 1
    /\ UNCHANGED <<f, g, h, limit, args>>

\* a + b and b + a, as in test adding
AddBothWays ==
    /\ Running
    /\ res' = Ok(lc_add(args[1], args[2]))
    /\ res2' = Ok(lc_add(args[2], args[1]))
    /\ pre' = f
    /\ last' = "add"
    /\ steps' = steps + 1
    /\ UNCHANGED <<f, g, h, limit, args>>

\* (a + b) + c and a + (b + c)
AddThree ==
    /\ Running
    /\ res' = Ok(lc_add(lc_add(args[1], args[2]), args[3]))
    /\ res2' = Ok(lc_add(args[1], lc_add(args[2], args[3])))
    /\ pre' = f
    /\ last' = "add3"
    /\ steps' = steps + 1
    /\ UNCHANGED <<f, g, h, limit, args>>

\* a * c for a coefficient c
Scale ==
    /\ Running
    /\ \E c \in Coeffs :
         /\ res' = Ok(lc_scale(args[1], c))
         /\ res2' = Ok(c)
    /\ pre' = f
    /\ last' = "scale"
    /\ steps' = steps + 1
    /\ UNCHANGED <<f, g, h, limit, args>>

\* a - b and a + (-b)
Subtract ==
    /\ Running
    /\ res' = Ok(lc_sub(args[1], args[2]))
    /\ res2' = Ok(lc_add(args[1], lc_neg(args[2])))
    /\ pre' = f
    /\ last' = "sub"
    /\ steps' = steps + 1
    /\ UNCHANGED <<f, g, h, limit, args>>

\* a.simplify()
SimplifySum ==
    /\ Running
    /\ res' = Ok(lc_simplify(args[1]))
    /\ res2' = NoResult
    /\ pre' = f
    /\ last' = "lc_simplify"
    /\ steps' = steps + 1
    /\ UNCHANGED <<f, g, h, limit, args>>

\* a.linear_combine(b, combiner) under any iteration order of the two
\* HashMaps; res2 is the order the keys were visited in
LinearCombine ==
    /\ Running
    /\ \E keys1 \in Orders(DOMAIN args[1]), keys2 \in Orders(DOMAIN args[2]) :
         /\ res' = Ok(linear_combine_visiting(args[1], args[2], args[3], keys1, keys2))
         /\ res2' = Ok(<<keys1, keys2>>)
    /\ pre' = f
    /\ last' = "linear_combine"
    /\ steps' = steps + 1
    /\ UNCHANGED <<f, g, h, limit, args>>


\* a.inj_linearly_extend(extend) and a.linearly_extend(extend)
MapKeys ==
    /\ Running
    /\ res' = inj_linearly_extend(args[1], args[2])
    /\ res2' = Ok(linearly_extend(args[1], args[2]))
    /\ pre' = f
    /\ last' = "map_keys"
    /\ steps' = steps + 1
    /\ UNCHANGED <<f, g, h, limit, args>>


\* BrauerMorphism::delta_polynomial(&args)
DeltaPolynomial ==
    /\ Running
    /\ res' = Ok(delta_polynomial(args))
    /\ res2' = NoResult
    /\ pre' = f
    /\ last' = "delta_polynomial"
    /\ steps' = steps + 1
    /\ UNCHANGED <<f, g, h, limit, args>>


\* args[1] * args[2] of ExtendedPerfectMatching; res2 is final_matching as
\* the scan pushed it, before into() sorts and checks it
Glue ==
    /\ Running
    /\ res' = ext_mul(args[1], args[2])
    /\ res2' = IF GlueAssertsHold(args[1][1], args[1][2], args[1][4],
                                  args[2][1], args[2][2], args[2][4])
               THEN Ok(GlueScan(GlueEdges(args[1][1], args[1][4], args[2][4]),
                                args[1][1] + args[2][2], args[1][1], args[1][2],
                                0, {}, <<>>))
               ELSE NoResult
    /\ pre' = f
    /\ last' = "glue"
    /\ steps' = steps + 1
    /\ UNCHANGED <<f, g, h, limit, args>>


\* args[1].shift_index(args[2], args[3])
ShiftIndex ==
    /\ Running
    /\ res' = shift_index(args[1], args[2], args[3])
    /\ res2' = NoResult
    /\ pre' = f
    /\ last' = "shift_index"
    /\ steps' = steps + 1
    /\ UNCHANGED <<f, g, h, limit, args>>


\* f.append_layer(next_layer), next_layer the first layer of g
AppendLayer ==
    /\ Running
    /\ Len(g.layers) > 0
    /\ LET r == append_layer(f.layers, g.layers[1])
       IN /\ f' = Layered(r.val)
          /\ res' = [st |-> r.st, val |-> <<>>]
    /\ res2' = NoResult
    /\ pre' = f
    /\ last' = "append_layer"
    /\ steps' = steps + 1
    /\ UNCHANGED <<g, h, limit, args>>

\* f.compose(g) of GenericMonoidalMorphism: f is written in place
ComposeLayers ==
    /\ Running
    /\ LET r == AppendLayers(f.layers, g.layers, 1)
       IN /\ f' = Layered(r.val)
          /\ res' = [st |-> r.st, val |-> <<>>]
    /\ res2' = NoResult
    /\ pre' = f
    /\ last' = "compose_layers"
    /\ steps' = steps + 1
    /\ UNCHANGED <<g, h, limit, args>>


\* PartialEq::eq(&f, &h)
Equal ==
    /\ Running
    /\ res' = Ok(morphism_eq(f, h))
    /\ res2' = NoResult
    /\ pre' = f
    /\ last' = "eq"
    /\ steps' = steps + 1
    /\ UNCHANGED <<f, g, h, limit, args>>


Next ==
    \/ Compose
    \/ Tensor
    \/ Dagger
    \/ Verify
    \/ Simplify

\* any one operation on two morphisms of the input sets
Spec == Init /\ [][Next]_vars

\* the product of three morphisms that compose
SpecAssoc == InitAssoc /\ [][ComposeThree]_vars

NextGens ==
    \/ Compose
    \/ ComposeThree
    \/ Dagger

\* the products of two and of three generators and their adjoints
SpecGens == InitGens /\ [][NextGens]_vars

\* the adjoint of a morphism of any shape
SpecDagger == InitDagger /\ [][Dagger]_vars

\* the construction of a matching from any sequence of pairs
SpecFromIter == InitFromIter /\ [][FromIter]_vars

NextReach ==
    \/ Compose
    \/ Tensor
    \/ Dagger
    \/ Verify
    \/ Simplify
    \/ Take

\* sequences of operations on what the constructors return
SpecReach == InitReach /\ [][NextReach]_vars

\* the planarity test of any matching under any split
SpecNonCrossing == InitNonCrossing /\ [][NonCrossing]_vars

NextSums ==
    \/ AddBothWays
    \/ AddThree
    \/ Scale
    \/ Subtract
    \/ SimplifySum

\* the arithmetic of LinearCombination on any three sums
SpecSums == InitSums /\ [][NextSums]_vars

\* linear_combine of any two sums under any combiner
SpecCombine == InitCombine /\ [][LinearCombine]_vars


\* the two key maps of any sum under any function of the keys
SpecMapKeys == InitMapKeys /\ [][MapKeys]_vars


\* delta_polynomial of any coefficient list
SpecDelta == InitDelta /\ [][DeltaPolynomial]_vars


\* the product of any two tagged matchings that fit
SpecGlue == InitGlue /\ [][Glue]_vars


\* shift_index of any matching by any threshold and amount
SpecShift == InitShift /\ [][ShiftIndex]_vars


NextProduce ==
    \/ FromIter
    \/ Dagger
    \/ Compose
    \/ Tensor

\* the operations that produce matchings: construction, flip, glue, tensor
SpecProduce == InitProduce /\ [][NextProduce]_vars


NextLayers ==
    \/ AppendLayer
    \/ ComposeLayers

\* append_layer and compose on any two GenericMonoidalMorphisms
SpecLayers == InitLayers /\ [][NextLayers]_vars


NextEq ==
    \/ Compose
    \/ Take
    \/ Simplify
    \/ Equal

\* a product, simplified or not, compared with a constructed morphism
SpecEq == InitEq /\ [][NextEq]_vars


NextInPlace ==
    \/ Tensor
    \/ Verify
    \/ Simplify

\* sequences of the operations that write a morphism in place
SpecInPlace == InitInPlace /\ [][NextInPlace]_vars

\* ------------------------------------------------------------------ claims

\* the entries that simplify leaves of a result
Simplified(r) == simplify(r.val).diagram

\* C1: composition is associative: for three morphisms that compose, the two
\* bracketings (f g) h and f (g h) both succeed and give the same source,
\* the same target and, after simplify, the same entries.
C1_ComposeAssociative ==
    last = "compose3" =>
        /\ res.st = "ok"
        /\ res2.st = "ok"
        /\ res.val.source = res2.val.source
        /\ res.val.target = res2.val.target
        /\ Simplified(res) = Simplified(res2)

\* C1 witness: a product of three in which two terms of f fall on the same
\* key and cancel, and a closed loop raised the power of delta
C1_Witness ==
    /\ last = "compose3"
    /\ res.st = "ok"
    /\ Cardinality(DOMAIN f.diagram) = 2
    /\ \A k \in DOMAIN f.diagram : f.diagram[k] # 0 /\ k[1] = 0
    /\ \E k \in DOMAIN res.val.diagram : res.val.diagram[k] = 0 /\ k[1] >= 1

\* C2: identity laws: composing f with identity(f.target) on the right, or
\* g with identity(g.source) on the left, returns the other operand: same
\* source and target and the same entries (power, matching, coefficient).
C2_IdentityLaws ==
    last = "compose" =>
        /\ g = identity(f.target) =>
              res.st = "ok" /\ morphism_eq(res.val, f)
        /\ f = identity(g.source) =>
              res.st = "ok" /\ morphism_eq(res.val, g)

\* C2 witness: f with two terms, a crossing, a power of delta and an entry
\* of coefficient zero, composed with identity(2)
C2_Witness ==
    /\ last = "compose"
    /\ g = identity(2)
    /\ res.st = "ok"
    /\ Cardinality(DOMAIN f.diagram) = 2
    /\ \E k \in DOMAIN f.diagram : k[1] = 1 /\ ~non_crossing(k[2], 2, 2)
    /\ \E k \in DOMAIN f.diagram : f.diagram[k] = 0

\* C3: compose returns the arity failure as a value exactly when
\* self.target # other.source; otherwise it returns a morphism (no collision
\* in the tagging step, no assertion of the glue fires); self and other are
\* as they were before the call.
C3_ComposeErrIffArityMismatch ==
    last = "compose" =>
        /\ res.st \in {"ok", "err"}
        /\ res.st = "err" <=> f.target # g.source
        /\ res.st = "err" => res.val = "CompositionArityMismatch"
        /\ res.st = "ok" => DOMAIN res.val = {"diagram", "source", "target", "is_def_tl"}
        /\ f = pre

\* C3 witness: a compose of a two-term f whose target is not the source of g
C3_Witness ==
    /\ last = "compose"
    /\ res.st = "err"
    /\ f.target = 2
    /\ g.source = 0
    /\ Cardinality(DOMAIN f.diagram) = 2

\* the nodes of the glued graph that are boundary points of the product
BoundaryNodes(self_dom, self_cod, rhs_cod) ==
    (0..(self_dom - 1)) \cup ((self_dom + self_cod)..(self_dom + self_cod + rhs_cod - 1))

\* the connected components of the glued graph with no boundary point
ClosedLoops(self, rhs) ==
    LET E == GlueEdges(self[1], self[4], rhs[4])
        Nodes == 0..(self[1] + self[2] + rhs[2] - 1)
    IN Cardinality({c \in {ReachFrom(E, {n}) : n \in Nodes} :
                        c \cap BoundaryNodes(self[1], self[2], rhs[2]) = {}})

\* C4: the power of a glued term is pL + pR + the number of components of
\* the glued graph without a boundary point; components + pL + pR is never
\* below (dL + cR) / 2; identity(n) composed with itself is the identity
\* matching at power 0.
C4_GluedPower ==
    (last = "compose" /\ f.target = g.source) =>
        /\ \A k1 \in DOMAIN f.diagram : \A k2 \in DOMAIN g.diagram :
              LET self == Tagged(f, k1)
                  rhs == Tagged(g, k2)
                  E == GlueEdges(self[1], self[4], rhs[4])
                  Nodes == 0..(self[1] + self[2] + rhs[2] - 1)
                  glued == ext_mul(self, rhs)
              IN /\ connected_components(Nodes, E) + k1[1] + k2[1]
                        >= (self[1] + rhs[2]) \div 2
                 /\ glued.st = "ok"
                 /\ glued.val[3] = k1[1] + k2[1] + ClosedLoops(self, rhs)
                 /\ <<glued.val[3], glued.val[4]>> \in DOMAIN res.val.diagram
        /\ (f = identity(f.source) /\ g = f) =>
              /\ res.st = "ok"
              /\ res.val.diagram = identity(f.source).diagram
              /\ \A k \in DOMAIN res.val.diagram : k[1] = 0

\* C4 witness: a product with a term glued from powers 1 and 1 and a closed
\* loop, power 3
C4_Witness ==
    /\ last = "compose"
    /\ res.st = "ok"
    /\ \E k1 \in DOMAIN f.diagram : \E k2 \in DOMAIN g.diagram :
          /\ k1[1] = 1
          /\ k2[1] = 1
          /\ ClosedLoops(Tagged(f, k1), Tagged(g, k2)) = 1
          /\ <<3, <<>>>> \in DOMAIN res.val.diagram

\* C5: a successful compose has the source of self, the target of other and
\* the flag self.is_def_tl /\ other.is_def_tl, not re-derived from the
\* result: s_0 composed with s_0 on two strands equals identity(2) as a sum
\* and carries the flag false, identity(2) carries true.
C5_ComposeShapeAndFlag ==
    (last = "compose" /\ res.st = "ok") =>
        /\ res.val.source = f.source
        /\ res.val.target = g.target
        /\ res.val.is_def_tl = (f.is_def_tl /\ g.is_def_tl)
        /\ (f = symmetric_alg_gens(2, 0) /\ g = f) =>
              /\ morphism_eq(res.val, identity(2))
              /\ ~res.val.is_def_tl
              /\ identity(2).is_def_tl

\* C5 witness: s_0 composed with s_0 on two strands
C5_Witness ==
    /\ last = "compose"
    /\ res.st = "ok"
    /\ f = symmetric_alg_gens(2, 0)
    /\ g = f
    /\ res.val.diagram = identity(2).diagram

\* C6 as stated: no successful in-place operation (tensor, verify, simplify)
\* takes the flag from true to false, and only verify takes it from false
\* to true.
C6_FlagMonotone ==
    [][(last' \in {"tensor", "verify", "simplify"} /\ res'.st = "ok") =>
          /\ f.is_def_tl => f'.is_def_tl
          /\ (~f.is_def_tl /\ f'.is_def_tl) => last' = "verify"]_vars

\* C6, amended: verify and simplify never take the flag from true to false;
\* tensor sets it to self.is_def_tl /\ other.is_def_tl, so it drops exactly
\* when the flag of other is false; only verify takes it from false to true.
C6_FlagMonotoneExceptTensor ==
    [][last' \in {"tensor", "verify", "simplify"} =>
          /\ last' \in {"verify", "simplify"} => (f.is_def_tl => f'.is_def_tl)
          /\ last' = "tensor" => f'.is_def_tl = (f.is_def_tl /\ g.is_def_tl)
          /\ (~f.is_def_tl /\ f'.is_def_tl) => last' = "verify"]_vars

\* C6 witness: the second operation of a sequence is the tensor product of a
\* scalar whose flag is true with a crossing; it completes and takes the
\* flag from true to false
C6_Witness ==
    /\ last = "tensor"
    /\ res.st = "ok"
    /\ steps = 2
    /\ pre.is_def_tl
    /\ ~f.is_def_tl
    /\ ~g.is_def_tl
    /\ pre.source = 0
    /\ f.source = 2
    /\ \E k \in DOMAIN f.diagram : f.diagram[k] # 0 /\ ~non_crossing(k[2], f.source, f.target)

\* where the claim places point v of a (source s1) in the tensor product
\* with b (source s2)
PlaceSelf(v, s1, s2) == IF v < s1 THEN v ELSE v + s2

\* where the claim places point v of b (source s2) in the tensor product
\* with a (source s1, target t1)
PlaceOther(v, s1, t1, s2) == IF v < s2 THEN v + s1 ELSE v + s1 + t1

\* the matching of the tensor product of the terms m1 of a and m2 of b
PlacedMatching(m1, m2, s1, t1, s2) ==
    canonicalize([i \in 1..Len(m1) |->
                     <<PlaceSelf(m1[i][1], s1, s2), PlaceSelf(m1[i][2], s1, s2)>>]
                 \o [i \in 1..Len(m2) |->
                        <<PlaceOther(m2[i][1], s1, t1, s2), PlaceOther(m2[i][2], s1, t1, s2)>>])

\* the entries the claim gives a after a.tensor(b)
PlacedDiagram(a, b) ==
    LET img == [pr \in (DOMAIN a.diagram) \X (DOMAIN b.diagram) |->
                   <<pr[1][1] + pr[2][1],
                     PlacedMatching(pr[1][2], pr[2][2], a.source, a.target, b.source)>>]
    IN [k \in {img[pr] : pr \in DOMAIN img} |->
           SumOver({pr \in DOMAIN img : img[pr] = k},
                   [pr \in DOMAIN img |-> a.diagram[pr[1]] * b.diagram[pr[2]]])]

\* C7 as stated: a.tensor(b) completes and leaves a with source s1 + s2,
\* target t1 + t2 and, for each pair of terms, the entry (p1 + p2, m) of
\* coefficient c1 * c2 summed over collisions, m placing a's domain, b's
\* domain, a's codomain and b's codomain side by side.
C7_TensorCompletesAndPlaces ==
    last = "tensor" =>
        /\ res.st = "ok"
        /\ f.source = pre.source + g.source
        /\ f.target = pre.target + g.target
        /\ f.diagram = PlacedDiagram(pre, g)

\* C7 failing input: identity(1).monoidal(identity(1)) panics in the
\* assertion of from_iter that shift_index collects through; source and
\* target are already written, the diagram is not
C7_Witness ==
    /\ last = "tensor"
    /\ pre = identity(1)
    /\ g = identity(1)
    /\ res.st = "panic"
    /\ f.source = 2
    /\ f.target = 2
    /\ f.diagram = pre.diagram

\* the entries of m with each term (p, mt) -> c replaced by the terms
\* (p + k, mt) -> c * coeffs[k] of the nonzero coeffs[k]; coeffs[k] of the
\* code is coeffs[k + 1] of the sequence
ScaledByPolynomial(m, coeffs) ==
    LET ks == {k \in 0..(Len(coeffs) - 1) : coeffs[k + 1] # 0}
        img == [pr \in (DOMAIN m.diagram) \X ks |-> <<pr[1][1] + pr[2], pr[1][2]>>]
    IN [key \in {img[pr] : pr \in DOMAIN img} |->
           SumOver({pr \in DOMAIN img : img[pr] = key},
                   [pr \in DOMAIN img |-> m.diagram[pr[1]] * coeffs[pr[2] + 1]])]

\* C8: tensoring a morphism with simplify(delta_polynomial(coeffs)), in
\* either order, completes and gives the same morphism: the source, target
\* and matchings of the morphism, each term (p, m) -> c replaced by the
\* terms (p + k, m) -> c * coeffs[k] for the nonzero coeffs[k], and the flag
\* of the morphism.
C8_TensorWithDeltaPolynomial ==
    last = "tensor" =>
        \A coeffs \in CoeffLists :
            LET d == simplify(delta_polynomial(coeffs))
            IN /\ g = d =>
                    /\ res.st = "ok"
                    /\ f = Morphism(ScaledByPolynomial(pre, coeffs),
                                    pre.source, pre.target, pre.is_def_tl)
                    /\ monoidal(d, pre) = Ok(f)
               /\ pre = d =>
                    /\ res.st = "ok"
                    /\ f = Morphism(ScaledByPolynomial(g, coeffs),
                                    g.source, g.target, g.is_def_tl)
                    /\ monoidal(g, d) = Ok(f)

\* C8 witness: a morphism on two strands with the same crossing at powers 0
\* and 1, tensored with 1 + delta: the two terms collide at power 1
C8_Witness ==
    /\ last = "tensor"
    /\ res.st = "ok"
    /\ g = simplify(delta_polynomial(<<1, 1>>))
    /\ pre.source = 2
    /\ pre.target = 2
    /\ \E mt \in AllMatchings(4) :
          /\ ~non_crossing(mt, 2, 2)
          /\ DOMAIN pre.diagram = {<<0, mt>>, <<1, mt>>}
          /\ pre.diagram[<<0, mt>>] = 1
          /\ pre.diagram[<<1, mt>>] = 1
          /\ DOMAIN f.diagram = {<<0, mt>>, <<1, mt>>, <<2, mt>>}
          /\ f.diagram[<<1, mt>>] = 2

\* |i - j|
Dist(i, j) == IF i < j THEN j - i ELSE i - j

C10_SymmetricRelations ==
    \A n \in 2..SymGenN : \A i, j \in 0..(n - 2) :
        (f = symmetric_alg_gens(n, i) /\ g = symmetric_alg_gens(n, j)) =>
            /\ (last = "compose" /\ i = j) =>
                  /\ res.st = "ok"
                  /\ morphism_eq(res.val, identity(n))
            /\ (last = "compose" /\ Dist(i, j) >= 2) =>
                  LET prod_ji == compose(g, f)
                  IN /\ res.st = "ok"
                     /\ prod_ji.st = "ok"
                     /\ morphism_eq(res.val, prod_ji.val)
            /\ (last = "compose3" /\ h = f /\ Dist(i, j) = 1) =>
                  LET prod_jij == and_then_compose(compose(g, f), g)
                  IN /\ res.st = "ok"
                     /\ prod_jij.st = "ok"
                     /\ morphism_eq(res.val, prod_jij.val)

\* C10 witness: s_4 s_5 s_4 on SymGenN strands, strand 4 ending on strand 6
C10_Witness ==
    /\ last = "compose3"
    /\ f = symmetric_alg_gens(SymGenN, 4)
    /\ g = symmetric_alg_gens(SymGenN, 5)
    /\ h = f
    /\ res.st = "ok"
    /\ \E k \in DOMAIN res.val.diagram :
          /\ res.val.diagram[k] = 1
          /\ \E x \in 1..Len(k[2]) : k[2][x] = <<4, 6 + SymGenN>>

\* C11: for the generators e_i and s_i on the same n up to SymGenN strands:
\* e_i s_i and s_i e_i equal e_i; s_i s_j e_i equals e_j e_i and e_i s_j e_i
\* equals e_i when |i - j| = 1; s_i e_j equals e_j s_i when j >= i + 2;
\* every one of these products with an s has the flag false.
C11_TangleRelations ==
    \A n \in 2..SymGenN : \A i, j \in 0..(n - 2) :
        LET e_i == temperley_lieb_gens(n, i)
            e_j == temperley_lieb_gens(n, j)
            s_i == symmetric_alg_gens(n, i)
            s_j == symmetric_alg_gens(n, j)
        IN /\ (last = "compose" /\ i = j /\ <<f, g>> \in {<<e_i, s_i>>, <<s_i, e_i>>}) =>
                 /\ res.st = "ok"
                 /\ morphism_eq(res.val, e_i)
                 /\ ~res.val.is_def_tl
           /\ (last = "compose3" /\ Dist(i, j) = 1 /\ f = s_i /\ g = s_j /\ h = e_i) =>
                 LET e_je_i == compose(e_j, e_i)
                 IN /\ res.st = "ok"
                    /\ e_je_i.st = "ok"
                    /\ morphism_eq(res.val, e_je_i.val)
                    /\ ~res.val.is_def_tl
           /\ (last = "compose3" /\ Dist(i, j) = 1 /\ f = e_i /\ g = s_j /\ h = e_i) =>
                 /\ res.st = "ok"
                 /\ morphism_eq(res.val, e_i)
                 /\ ~res.val.is_def_tl
           /\ (last = "compose" /\ j >= i + 2 /\ f = s_i /\ g = e_j) =>
                 LET prod_ji == compose(e_j, s_i)
                 IN /\ res.st = "ok"
                    /\ prod_ji.st = "ok"
                    /\ morphism_eq(res.val, prod_ji.val)
                    /\ ~res.val.is_def_tl
                    /\ ~prod_ji.val.is_def_tl

\* C11 witness: s_1 s_0 e_1 on SymGenN strands, the product with neighbour
\* 0 that the test skips, equal to e_0 e_1
C11_Witness ==
    /\ last = "compose3"
    /\ f = symmetric_alg_gens(SymGenN, 1)
    /\ g = symmetric_alg_gens(SymGenN, 0)
    /\ h = temperley_lieb_gens(SymGenN, 1)
    /\ res.st = "ok"
    /\ res.val.diagram = compose(temperley_lieb_gens(SymGenN, 0), h).val.diagram
    /\ ~res.val.is_def_tl

\* the involution on the coefficients that the last dagger was called with
Conj(c) == IF last = "dagger_neg" THEN 0 - c ELSE c

\* where a point of a diagram source -> target lies once the diagram is
\* turned upside down: domain point v becomes codomain point v, codomain
\* point source + j becomes domain point j
FlipPoint(v, source, target) == IF v < source THEN target + v ELSE v - source

\* the matching m of a diagram source -> target, turned upside down
Flipped(m, source, target) ==
    SeqOfPairs({PairSorted(FlipPoint(m[i][1], source, target),
                           FlipPoint(m[i][2], source, target)) : i \in 1..Len(m)})

\* C12: dagger(f, conj) for an involution conj completes (no injectivity
\* failure), has source and target swapped, the flag of f, and for every
\* term (p, m) -> c of f the term (p, m turned upside down) -> conj(c), a
\* matching on the same points; dagger(dagger(f, conj), conj) is f again,
\* source, target, entries and flag.
C12_DaggerInvolution ==
    last \in {"dagger", "dagger_neg"} =>
        /\ res.st = "ok"
        /\ res.val.source = f.target
        /\ res.val.target = f.source
        /\ res.val.is_def_tl = f.is_def_tl
        /\ DOMAIN res.val.diagram =
              {<<k[1], Flipped(k[2], f.source, f.target)>> : k \in DOMAIN f.diagram}
        /\ \A k \in DOMAIN f.diagram :
              /\ Flipped(k[2], f.source, f.target) \in AllMatchings(f.source + f.target)
              /\ res.val.diagram[<<k[1], Flipped(k[2], f.source, f.target)>>]
                    = Conj(f.diagram[k])
        /\ dagger(res.val, [c \in {res.val.diagram[k] : k \in DOMAIN res.val.diagram} |->
                               Conj(c)]) = Ok(f)

\* C12 witness: the adjoint, with negation, of a two-term morphism 1 -> 3
\* with a matching that turning upside down changes
C12_Witness ==
    /\ last = "dagger_neg"
    /\ res.st = "ok"
    /\ f.source = 1
    /\ f.target = 3
    /\ Cardinality(DOMAIN f.diagram) = 2
    /\ \E k \in DOMAIN f.diagram :
          /\ f.diagram[k] = 1
          /\ Flipped(k[2], 1, 3) # k[2]
          /\ res.val.diagram[<<k[1], Flipped(k[2], 1, 3)>>] = 0 - 1

\* C13: every generator is its own adjoint: for n up to SymGenN strands and
\* i in 0..n-2, dagger(e_i, conj) equals e_i and dagger(s_i, conj) equals
\* s_i, conj fixing the coefficient one.
C13_GeneratorsSelfAdjoint ==
    \A n \in 2..SymGenN : \A i \in 0..(n - 2) :
        (last = "dagger" /\ f \in {temperley_lieb_gens(n, i), symmetric_alg_gens(n, i)}) =>
            /\ res.st = "ok"
            /\ morphism_eq(res.val, f)
            /\ res.val.is_def_tl = f.is_def_tl

\* C13 witness: the adjoint of s_3 on SymGenN strands
C13_Witness ==
    /\ last = "dagger"
    /\ f = symmetric_alg_gens(SymGenN, 3)
    /\ res.st = "ok"
    /\ res.val.diagram = f.diagram
    /\ res.val.source = SymGenN

\* the 2n endpoints of the n pairs are exactly 0..2n-1, each once
ExactCover(pairs) ==
    \A x \in 0..(2 * Len(pairs) - 1) :
        Cardinality({ic \in (1..Len(pairs)) \X {1, 2} : pairs[ic[1]][ic[2]] = x}) = 1

\* C14 as stated: the construction of a matching from n pairs succeeds iff
\* the 2n endpoints are exactly 0..2n-1, each once; otherwise it returns a
\* failure to the caller as a result value, and no matching.
C14_MalformedMatchingIsAResult ==
    last = "from_iter" =>
        /\ ExactCover(args) =>
              /\ res.st = "ok"
              /\ Range(res.val) = {PairSort(args[i]) : i \in 1..Len(args)}
        /\ ~ExactCover(args) => res.st = "err"

\* C14 failing input: the one pair (0, 2), whose endpoint 2 is out of range;
\* the assertion of from_iter panics
C14_Witness ==
    /\ last = "from_iter"
    /\ args = <<(<<0, 2>>)>>
    /\ res.st = "panic"

\* every matching key of m covers 0..source+target-1 exactly once
Covered(m) ==
    \A k \in DOMAIN m.diagram :
        /\ 2 * Len(k[2]) = m.source + m.target
        /\ ExactCover(k[2])

CyclicPos(v, d, c) == IF v < d THEN v ELSE d + (d + c - 1 - v)

\* the pairs p and q interleave on the circle
Interleave(p, q, d, c) ==
    LET a == Min2(CyclicPos(p[1], d, c), CyclicPos(p[2], d, c))
        b == Max2(CyclicPos(p[1], d, c), CyclicPos(p[2], d, c))
        x == Min2(CyclicPos(q[1], d, c), CyclicPos(q[2], d, c))
        y == Max2(CyclicPos(q[1], d, c), CyclicPos(q[2], d, c))
    IN (a < x /\ x < b /\ b < y) \/ (x < a /\ a < y /\ y < b)

\* no two pairs of m interleave
Planar(m, d, c) ==
    \A i, j \in 1..Len(m) : ~Interleave(m[i], m[j], d, c)

\* C16: for every perfect matching m on d + c points, non_crossing(m, d, c)
\* is true iff m is planar: no two pairs interleave in the cyclic order
\* 0, ..., d-1, d+c-1, ..., d.
C16_NonCrossingIffPlanar ==
    last = "non_crossing" =>
        /\ res.st = "ok"
        /\ res.val = Planar(args[1], args[2], args[3])

\* C16 witness: a matching of four pairs, 3 -> 5, whose same-side lines do
\* not cross and block no through line, but whose through lines cross
C16_Witness ==
    /\ last = "non_crossing"
    /\ args = <<(<<(<<0, 4>>), (<<1, 3>>), (<<2, 7>>), (<<5, 6>>)>>), 3, 5>>
    /\ res.val = FALSE

\* the pairs p and q lie on the same side and overlap without nesting:
\* a < c < b < d for p = (a, b) and q = (c, d)
SameSideOverlap(p, q, source) ==
    /\ (p[1] < source /\ p[2] < source /\ q[1] < source /\ q[2] < source)
       \/ (p[1] >= source /\ p[2] >= source /\ q[1] >= source /\ q[2] >= source)
    /\ p[1] < q[1]
    /\ q[1] < p[2]
    /\ p[2] < q[2]

\* C17: non_crossing is true of the identity matching i <-> i + n for every
\* n, and false of every matching with two same-side pairs (a, b), (c, d),
\* a < c < b < d, whatever the other pairs are.
C17_IdentityPlanarOverlapCrossing ==
    last = "non_crossing" =>
        /\ (args[2] = args[3]
            /\ args[1] = [i \in 1..args[2] |-> <<i - 1, i - 1 + args[2]>>])
              => res.val = TRUE
        /\ (\E i, j \in 1..Len(args[1]) : SameSideOverlap(args[1][i], args[1][j], args[2]))
              => res.val = FALSE

\* C17 witness: domain size 6 with the domain pairs (0, 2) and (1, 3) and
\* two through lines that do not cross
C17_Witness ==
    /\ last = "non_crossing"
    /\ args = <<(<<(<<0, 2>>), (<<1, 3>>), (<<4, 6>>), (<<5, 7>>)>>), 6, 2>>
    /\ res.val = FALSE

\* C18: set_is_tl changes nothing when the flag is true; when the flag is
\* false it sets the flag to true iff every key of the sum, keys of
\* coefficient zero included, has a matching that non_crossing(source,
\* target) accepts; the sum, source and target stay as they are.
C18_VerifyRecomputesFlagOnly ==
    last = "verify" =>
        /\ f.diagram = pre.diagram
        /\ f.source = pre.source
        /\ f.target = pre.target
        /\ pre.is_def_tl => f = pre
        /\ ~pre.is_def_tl =>
              (f.is_def_tl <=> \A k \in DOMAIN pre.diagram :
                                   non_crossing(k[2], pre.source, pre.target))

\* C18 witness: the flag stays false because of a crossing key of
\* coefficient zero, the other key being non-crossing with coefficient one
C18_Witness ==
    /\ last = "verify"
    /\ ~pre.is_def_tl
    /\ ~f.is_def_tl
    /\ Cardinality(DOMAIN f.diagram) = 2
    /\ \E k1, k2 \in DOMAIN f.diagram :
          /\ f.diagram[k1] = 0
          /\ ~non_crossing(k1[2], f.source, f.target)
          /\ f.diagram[k2] = 1
          /\ non_crossing(k2[2], f.source, f.target)

\* C19: for all formal sums a, b, c: a + b = b + a and (a + b) + c =
\* a + (b + c) as maps (same keys, same coefficients, no simplify), and a
\* scaled by one is a.
C19_ModuleLaws ==
    /\ last \in {"add", "add3"} => res = res2
    /\ (last = "scale" /\ res2.val = 1) => res.val = args[1]

\* C19 witness: (a + b) + c where a and b share a key whose coefficients
\* cancel and c has a key that a and b have not
C19_Witness ==
    /\ last = "add3"
    /\ \E k1, k2 \in 1..MaxKeys :
          /\ k1 \in DOMAIN args[1]
          /\ k1 \in DOMAIN args[2]
          /\ args[1][k1] = 1
          /\ args[2][k1] = 0 - 1
          /\ k2 \notin DOMAIN args[1] \cup DOMAIN args[2]
          /\ k2 \in DOMAIN args[3]
          /\ res.val[k1] = 0
          /\ DOMAIN res.val = {k1, k2}

\* C20: a - a and a + (-a) keep every key of a, with coefficient zero;
\* simplify removes exactly the entries of coefficient zero and leaves the
\* others as they are, so both results simplify to the empty sum; simplify
\* of a simplified sum changes nothing.
C20_ZeroEntriesKeptUntilSimplify ==
    /\ (last = "sub" /\ args[1] = args[2]) =>
          /\ DOMAIN res.val = DOMAIN args[1]
          /\ DOMAIN res2.val = DOMAIN args[1]
          /\ \A k \in DOMAIN args[1] : res.val[k] = 0 /\ res2.val[k] = 0
          /\ DOMAIN lc_simplify(res.val) = {}
          /\ DOMAIN lc_simplify(res2.val) = {}
    /\ last = "lc_simplify" =>
          /\ DOMAIN res.val = {k \in DOMAIN args[1] : args[1][k] # 0}
          /\ \A k \in DOMAIN res.val : res.val[k] = args[1][k]
          /\ lc_simplify(res.val) = res.val

\* C20 witness: a - a for a sum a of MaxKeys keys, one of them already of
\* coefficient zero
C20_Witness ==
    /\ last = "sub"
    /\ args[1] = args[2]
    /\ DOMAIN args[1] = 1..MaxKeys
    /\ args[1][1] = 0
    /\ args[1][2] = 1
    /\ DOMAIN res.val = 1..MaxKeys
    /\ res.val[2] = 0

\* the sum of c1 * c2 over the pairs of entries (k1, c1) of a and (k2, c2)
\* of b that combiner sends to k
RECURSIVE PairSum(_, _, _, _, _)
PairSum(a, b, combiner, k, todo) ==
    IF todo = {} THEN 0
    ELSE LET pr == CHOOSE x \in todo : TRUE
         IN (IF combiner[pr] = k THEN a[pr[1]] * b[pr[2]] ELSE 0)
            + PairSum(a, b, combiner, k, todo \ {pr})

\* C21: linear_combine(a, b, combiner) returns the sum whose keys are the
\* combiner(k1, k2) for k1 a key of a and k2 a key of b, the coefficient at
\* k being the sum of c1 * c2 over the pairs of entries sent to k; this is
\* so under every order in which the entries are visited (and is the sum
\* that CombineInto gives), and a and b are not changed by the call.
C21_BilinearCombine ==
    [][last' = "linear_combine" =>
          LET a == args[1]
              b == args[2]
              combiner == args[3]
              pairs == (DOMAIN a) \X (DOMAIN b)
          IN /\ res'.st = "ok"
             /\ DOMAIN res'.val = {combiner[pr] : pr \in pairs}
             /\ \A k \in DOMAIN res'.val :
                   res'.val[k] = PairSum(a, b, combiner, k, pairs)
             /\ res'.val = linear_combine(a, b, combiner)
             /\ args' = args]_vars

\* C21 witness: a and b of two keys each, the four pairs sent to two keys
\* in such a way that two pairs collide on key 1 with products 1 and 1
\* (coefficient 2) and the keys of b visited in descending order
C21_Witness ==
    /\ last = "linear_combine"
    /\ DOMAIN args[1] = {1, 2}
    /\ DOMAIN args[2] = {1, 2}
    /\ args[3][<<1, 1>>] = 1
    /\ args[3][<<2, 2>>] = 1
    /\ args[3][<<1, 2>>] = 2
    /\ args[3][<<2, 1>>] = 2
    /\ args[1][1] * args[2][1] = 1
    /\ args[1][2] * args[2][2] = 1
    /\ res2.val[2] = <<2, 1>>
    /\ res.val[1] = 2

\* two distinct keys of the sum a have the same image under extend
Collides(a, extend) ==
    \E k1, k2 \in DOMAIN a : k1 # k2 /\ extend[k1] = extend[k2]

\* C22: inj_linearly_extend fails, with a failure value handed back to the
\* caller, iff two distinct keys of the sum collide under the function;
\* when it succeeds its result is that of linearly_extend; linearly_extend
\* never fails and gives each image key the sum of the coefficients of the
\* keys mapped to it.
C22_InjectivityViolationIsAResult ==
    last = "map_keys" =>
        /\ res.st \in {"ok", "err"}
        /\ res.st = "err" <=> Collides(args[1], args[2])
        /\ res.st = "ok" => res.val = res2.val
        /\ res2.st = "ok"
        /\ DOMAIN res2.val = {args[2][k] : k \in DOMAIN args[1]}
        /\ \A n \in DOMAIN res2.val :
              res2.val[n] = SumOver({k \in DOMAIN args[1] : args[2][k] = n}, args[1])

\* C22 witness: keys 1 and 2 of coefficient 1 are both sent to 3 and key 3
\* to 1; inj_linearly_extend panics on the assertion and linearly_extend
\* gives 3 the coefficient 2
C22_Witness ==
    /\ last = "map_keys"
    /\ DOMAIN args[1] = {1, 2, 3}
    /\ args[1][1] = 1
    /\ args[1][2] = 1
    /\ args[2] = <<3, 3, 1>>
    /\ res.st = "panic"
    /\ res2.val[3] = 2
    /\ res2.val[1] = args[1][3]

\* C23: delta_polynomial(coeffs) returns a morphism of source 0, target 0
\* and flag true whose entries are, for each index k of coeffs (0-based),
\* the entry (k, empty matching) -> coeffs[k], and no other entry; the
\* empty list gives no entry.
C23_DeltaPolynomialEntries ==
    last = "delta_polynomial" =>
        /\ res.st = "ok"
        /\ res.val.source = 0
        /\ res.val.target = 0
        /\ res.val.is_def_tl
        /\ DOMAIN res.val.diagram = {<<k - 1, <<>>>> : k \in 1..Len(args)}
        /\ \A k \in 1..Len(args) : res.val.diagram[<<k - 1, <<>>>>] = args[k]

\* C23 witness: the empty list; the morphism returned has the one entry
\* (0, empty matching) -> 0
C23_Witness ==
    /\ last = "delta_polynomial"
    /\ args = <<>>
    /\ res.st = "ok"
    /\ DOMAIN res.val.diagram = {<<0, <<>>>>}
    /\ res.val.diagram[<<0, <<>>>>] = 0

\* the glued graph of L and R: L's points as they are, R's points after
\* them with R's domain laid on L's codomain; an edge per pair
GluedGraph(L, R) ==
    {{L[4][i][1], L[4][i][2]} : i \in 1..Len(L[4])}
    \cup {{R[4][i][1] + L[1], R[4][i][2] + L[1]} : i \in 1..Len(R[4])}

\* a and b are joined by a path of at most n edges of the graph G
RECURSIVE Linked(_, _, _, _)
Linked(G, a, b, n) ==
    \/ a = b
    \/ /\ n > 0
       /\ \E e \in G : a \in e /\ \E c \in e : c # a /\ Linked(G \ {e}, c, b, n - 1)

\* the node of the glued graph that is boundary point i of the product
GluedNode(L, i) == IF i < L[1] THEN i ELSE i + L[2]

\* C24: the product of L = (dL, cL, pL, mL) and R = (dR, cR, pR, mR) with
\* cL = dR is tagged (dL, cR) and its matching is a perfect matching of the
\* dL + cR boundary points (L's domain as 0..dL-1, then R's codomain as
\* dL..dL+cR-1): every boundary point is in exactly one pair, and two
\* boundary points are paired iff they are in the same component of the
\* glued graph. The scan never pushes a point that an earlier pair holds:
\* every component has no or two boundary points, so the pairing does not
\* depend on the order of the scan.
C24_GlueIsThePairingByComponents ==
    last = "glue" =>
        LET L == args[1]
            R == args[2]
            n == L[1] + R[2]
            G == GluedGraph(L, R)
            Same(i, j) == Linked(G, GluedNode(L, i), GluedNode(L, j), Cardinality(G))
        IN /\ res.st = "ok"
           /\ res.val[1] = L[1]
           /\ res.val[2] = R[2]
           /\ 2 * Len(res.val[4]) = n
           /\ \A i \in 0..(n - 1) :
                 Cardinality({ic \in (1..Len(res.val[4])) \X {1, 2} :
                                 res.val[4][ic[1]][ic[2]] = i}) = 1
           /\ \A i, j \in 0..(n - 1) :
                 i < j => (<<i, j>> \in Range(res.val[4]) <=> Same(i, j))
           /\ res2.st = "ok"
           /\ \A x, y \in 1..Len(res2.val) :
                 x # y => {res2.val[x][1], res2.val[x][2]}
                          \cap {res2.val[y][1], res2.val[y][2]} = {}
           /\ \A i \in 0..(n - 1) :
                 Cardinality({j \in 0..(n - 1) : Same(i, j)}) = 2

\* C24 witness: L on 3 -> 3 with pairs (0,1),(2,5),(3,4) and R on 3 -> 3
\* with pairs (0,4),(1,5),(2,3): boundary point 2 reaches 3 through one
\* middle point, and 4 reaches 5 through two middle points
C24_Witness ==
    /\ last = "glue"
    /\ args[1][1] = 3
    /\ args[1][2] = 3
    /\ args[2][2] = 3
    /\ args[1][4] = <<<<0, 1>>, <<2, 5>>, <<3, 4>>>>
    /\ args[2][4] = <<<<0, 4>>, <<1, 5>>, <<2, 3>>>>
    /\ res.st = "ok"
    /\ res.val[4] = <<<<0, 1>>, <<2, 3>>, <<4, 5>>>>

\* the flag of m, when true, tells the truth: every term of m, those of
\* coefficient zero included, is non-crossing for m's source and target
SoundFlag(m) ==
    m.is_def_tl =>
        \A k \in DOMAIN m.diagram : non_crossing(k[2], m.source, m.target)

Moved(v, threshold, amount) == IF v >= threshold THEN v + amount ELSE v

\* C26: shift_index(threshold, shift_amount) on any matching returns, for
\* every threshold and every amount >= 0, the pair list in which every
\* endpoint >= threshold is increased by the amount and every endpoint
\* below the threshold is as it was.
C26_ShiftIndicesShifts ==
    last = "shift_index" =>
        /\ res.st = "ok"
        /\ res.val = [i \in 1..Len(args[1]) |->
                         <<Moved(args[1][i][1], args[2], args[3]),
                           Moved(args[1][i][2], args[2], args[3])>>]

\* C26 witness: the matching (0, 1) with threshold 1 and amount 1: the pair
\* (0, 2) fails the assertion of from_iter and the call panics
C26_Witness ==
    /\ last = "shift_index"
    /\ args = <<<<<<0, 1>>>>, 1, 1>>
    /\ res.st = "panic"

\* every pair smaller index first, the pairs in strictly increasing
\* lexicographic order
IsCanonical(m) ==
    /\ \A i \in 1..Len(m) : m[i][1] < m[i][2]
    /\ \A i \in 1..(Len(m) - 1) :
          \/ m[i][1] < m[i + 1][1]
          \/ m[i][1] = m[i + 1][1] /\ m[i][2] < m[i + 1][2]

\* the set of unordered pairs of a sequence of pairs
Unordered(pairs) == {{pairs[i][1], pairs[i][2]} : i \in 1..Len(pairs)}

\* C27: every matching that from_iter, flip_upside_down (dagger), the glue
\* (compose) or the tensor product produces is in canonical form, and
\* the matchings built from the same set of unordered pairs, in any order
\* and orientation, are equal.
C27_ProducedMatchingsCanonical ==
    /\ (last = "from_iter" /\ res.st = "ok") =>
          /\ IsCanonical(res.val)
          /\ \A q \in PairSeqs :
                (Len(q) = Len(args) /\ Unordered(q) = Unordered(args)) =>
                    from_iter(q) = res
    /\ (last \in {"dagger", "dagger_neg", "compose"} /\ res.st = "ok") =>
          \A k \in DOMAIN res.val.diagram : IsCanonical(k[2])
    /\ (last = "tensor" /\ res.st = "ok") =>
          \A k \in DOMAIN f.diagram : IsCanonical(k[2])

\* C27 witness: the pairs (3, 2), (1, 0), each larger end first and in
\* descending order, give the matching (0, 1), (2, 3)
C27_Witness ==
    /\ last = "from_iter"
    /\ args = <<<<3, 2>>, <<1, 0>>>>
    /\ res.st = "ok"
    /\ res.val = <<<<0, 1>>, <<2, 3>>>>

\* C28: when append_layer, or compose which calls it for each layer of
\* other, returns Err because the next layer's left_type is not the
\* right_type of the receiver's last layer, the receiver's layers are what
\* they were before the call.
C28_FailedAppendKeepsLayers ==
    (last \in {"append_layer", "compose_layers"} /\ res.st = "err") =>
        f.layers = pre.layers

\* C28 witness: a receiver of two layers and a next layer whose left_type
\* is not the right_type of the second; append_layer returns Err and the
\* receiver is left with its first layer only
C28_Witness ==
    /\ last = "append_layer"
    /\ res.st = "err"
    /\ Len(pre.layers) = 2
    /\ pre.layers[2].right_type # g.layers[1].left_type
    /\ f.layers = <<pre.layers[1]>>

\* the sums a and b have the same keys and the same coefficient at each,
\* coefficient zero included
SameEntries(a, b) ==
    /\ DOMAIN a = DOMAIN b
    /\ \A k \in DOMAIN a : a[k] = b[k]

\* C29: two morphisms compare equal iff their sums have the same keys and
\* coefficients (entries of coefficient zero included) and their sources
\* and targets are equal; the flag takes no part: with either flag turned
\* over the answer is the same.
C29_EqualityIgnoresFlag ==
    last = "eq" =>
        /\ res.val <=> /\ SameEntries(f.diagram, h.diagram)
                       /\ f.source = h.source
                       /\ f.target = h.target
        /\ res.val = morphism_eq([f EXCEPT !.is_def_tl = ~f.is_def_tl], h)
        /\ res.val = morphism_eq(f, [h EXCEPT !.is_def_tl = ~h.is_def_tl])

\* C29 witness: s_0 s_0 on two strands, returned by compose with flag
\* false, compares equal to identity(2), whose flag is true
C29_Witness ==
    /\ last = "eq"
    /\ res.val = TRUE
    /\ ~f.is_def_tl
    /\ h.is_def_tl
    /\ h = identity(2)
    /\ g = symmetric_alg_gens(2, 0)
    /\ f.diagram = identity(2).diagram

====
